---- MODULE Spec2Model ----
(***************************************************************************)
(* Model of create_preview.py: the interactive sampler that cuts evenly    *)
(* spaced clips out of a video with ffmpeg and concatenates them.          *)
(*                                                                         *)
(* One run of main() is a state machine whose steps are the blocking       *)
(* points of the script: the duration probe, the two prompts, the          *)
(* existing-file prompt, every ffmpeg subprocess and the cleanup.          *)
(* Fractions of a second (start offsets) are exact rationals <<num, den>>. *)
(***************************************************************************)
EXTENDS Integers, Sequences, FiniteSets, TLC

VARIABLES
    pc,                 \* position of main()
    duration,           \* int returned by get_video_duration (-1: not probed)
    clip_input,         \* last line typed at the clip length prompt
    clip_length,        \* value returned by get_clip_length (-1: none yet)
    percentage_input,   \* last line typed at the percentage prompt
    percentage,         \* accepted percentage; the fraction is percentage/100
    table_clips,        \* clip counts printed in the example table
    shown_clips,        \* clip count printed in the confirmation line
    preview_duration,   \* main: round(duration * preview_percentage)
    timestamp,          \* the timestamp naming the clips directory
    clips_dir_exists,   \* clips_<timestamp> is on disk
    number_of_clips,    \* create_preview_clips: local number_of_clips
    i,                  \* create_preview_clips: loop index
    requests,           \* ffmpeg extraction commands issued so far
    extract_results,    \* what ffmpeg answered to each of them
    clip_paths,         \* create_preview_clips: local clip_paths
    concat_file,        \* lines of concat.txt
    concat_exists,      \* concat.txt is on disk
    concat_requests,    \* ffmpeg concat commands issued (their input lists)
    artifact,           \* <<>> or <<contents of the preview>>
    error,              \* the exception main() reports
    exit_code,          \* -1 while running
    console,            \* last message printed
    prev_runs           \* earlier completed invocations (SpecRerun only)

vars == <<pc, duration, clip_input, clip_length, percentage_input, percentage,
          table_clips, shown_clips, preview_duration, timestamp,
          clips_dir_exists, number_of_clips, i, requests, extract_results,
          clip_paths, concat_file, concat_exists, concat_requests, artifact,
          error, exit_code, console, prev_runs>>

-----------------------------------------------------------------------------
(* Bounds of the exploration *)

MaxDuration == 12
MaxClipInput == 4
MaxTimestamp == 2

\* Runs explored besides the exhaustive ones: the two scenarios of the
\* specification and the inputs where the double product is not the exact one.
Examples ==
    { <<600, 10, 10>>, <<37, 10, 50>>,
      <<25, 1, 14>>, <<50, 2, 7>>, <<50, 3, 29>>,
      <<75, 1, 14>>, <<75, 5, 34>>, <<90, 3, 35>> }

(* Program constants *)

MinClipLength == 1
MaxClipLength == 60
DefaultClipLength == 10
MinPercentage == 1
MaxPercentage == 50
ExamplePercentages == <<5, 10, 15, 20, 25>>

-----------------------------------------------------------------------------
(* Arithmetic *)

RECURSIVE GCD(_, _)
GCD(a, b) == IF b = 0 THEN a ELSE GCD(b, a % b)

\* a / b as a reduced rational, a >= 0, b > 0
Rat(a, b) == LET g == GCD(a, b) IN <<a \div g, b \div g>>

RatMulInt(r, k) == Rat(r[1] * k, r[2])
RatAddInt(r, k) == Rat(r[1] + k * r[2], r[2])
RatSub(r, s) == Rat(r[1] * s[2] - s[1] * r[2], r[2] * s[2])
RatLeq(r, s) == r[1] * s[2] <= s[1] * r[2]

\* math.ceil(a / b), a >= 0, b > 0
CeilDivFloor(a, b) == a \div b
CeilDiv(a, b) == (a + b - 1) \div b

\* duration * (pct / 100) in IEEE doubles is not always the exact product.
\* Where the exact product is a half, these are the inputs whose double lies
\* just above or just below it (durations up to 100, and 600).
FloatAbove == { <<25, 14>>, <<50, 7>>, <<75, 14>>, <<75, 34>> }
FloatBelow == { <<50, 29>>, <<90, 35>> }

\* round(duration * (pct / 100)): nearest integer, an exact half to even
RoundProduct(d, pct) ==
    LET q == (d * pct) \div 100
        r == (d * pct) % 100
    IN  IF r < 50 THEN q
        ELSE IF r > 50 THEN q + 1
        ELSE IF <<d, pct>> \in FloatAbove THEN q + 1
        ELSE IF <<d, pct>> \in FloatBelow THEN q
        ELSE IF q % 2 = 0 THEN q ELSE q + 1

\* get_preview_percentage, example table: math.ceil(duration*(pct/100) / clip_length)
TableClips(d, len, pct) == CeilDiv(d * pct, 100 * len)

\* get_preview_percentage, confirmation line
ConfirmClips(d, len, pct) == CeilDiv(RoundProduct(d, pct), len)

\* create_preview_clips: number_of_clips
NumberOfClipsPlusOne(pd, len) == CeilDiv(pd, len) + 1
NumberOfClips(pd, len) == CeilDiv(pd, len)

\* create_preview_clips: start_time = (duration / number_of_clips) * i
StartTimeOverPreview(d, pd, n, k, ts) == RatMulInt(Rat(pd, n), k)
StartTimeStamped(d, pd, n, k, ts) == RatAddInt(RatMulInt(Rat(d, n), k), ts - 1)
StartTime(d, pd, n, k, ts) == RatMulInt(Rat(d, n), k)

\* clips_dir / f"clip{i}.mp4"
ClipPath(ts, k) == <<ts, k>>

-----------------------------------------------------------------------------
(* What the user can type *)

Empty == [kind |-> "empty", val |-> 0]
Text == [kind |-> "text", val |-> 0]
Num(v) == [kind |-> "num", val |-> v]
NoInput == [kind |-> "none", val |-> 0]

General(d) == d <= MaxDuration

Durations ==
    IF prev_runs = <<>>
    THEN (0 .. MaxDuration) \cup { e[1] : e \in Examples }
    ELSE { prev_runs[1].duration }

ClipInputs ==
    IF prev_runs # <<>> THEN { Num(prev_runs[1].clip_length) }
    ELSE IF General(duration)
    THEN { Empty, Text }
         \cup { Num(v) : v \in (0 .. MaxClipInput)
                           \cup { MaxClipLength, MaxClipLength + 1 } }
    ELSE { Num(e[2]) : e \in { x \in Examples : x[1] = duration } }

PercentageInputs ==
    IF prev_runs # <<>> THEN { Num(prev_runs[1].percentage) }
    ELSE IF General(duration)
    THEN { Text } \cup { Num(v) : v \in 0 .. MaxPercentage + 1 }
    ELSE { Num(e[3]) : e \in { x \in Examples :
                                 x[1] = duration /\ x[2] = clip_length } }

Timestamps == 1 .. MaxTimestamp

NoError == [kind |-> "none", index |-> -1]

-----------------------------------------------------------------------------
Init ==
    /\ pc = "get_duration"
    /\ duration = -1
    /\ clip_input = NoInput
    /\ clip_length = -1
    /\ percentage_input = NoInput
    /\ percentage = 0
    /\ table_clips = <<>>
    /\ shown_clips = -1
    /\ preview_duration = -1
    /\ timestamp = 0
    /\ clips_dir_exists = FALSE
    /\ number_of_clips = -1
    /\ i = 0
    /\ requests = <<>>
    /\ extract_results = <<>>
    /\ clip_paths = <<>>
    /\ concat_file = <<>>
    /\ concat_exists = FALSE
    /\ concat_requests = <<>>
    /\ artifact = <<>>
    /\ error = NoError
    /\ exit_code = -1
    /\ console = ""
    /\ prev_runs = <<>>

\* main: except Exception as e: print(f"Error: {e}"); sys.exit(1)
Fail(kind, index) ==
    /\ error' = [kind |-> kind, index |-> index]
    /\ exit_code' = 1
    /\ console' = "Error"
    /\ pc' = "exit"

-----------------------------------------------------------------------------
(* main, lines 288-296: the duration of the chosen video *)

GetVideoDuration ==
    /\ pc = "get_duration"
    /\ \E d \in Durations : duration' = d
    /\ pc' = "get_clip_length"
    /\ UNCHANGED <<clip_input, clip_length, percentage_input, percentage,
                   table_clips, shown_clips, preview_duration, timestamp,
                   clips_dir_exists, number_of_clips, i, requests,
                   extract_results, clip_paths, concat_file, concat_exists,
                   concat_requests, artifact, error, exit_code, console,
                   prev_runs>>

\* get_video_duration raises ValueError("Could not parse video duration")
GetVideoDurationError ==
    /\ pc = "get_duration"
    /\ Fail("probe", -1)
    /\ UNCHANGED <<duration, clip_input, clip_length, percentage_input,
                   percentage, table_clips, shown_clips, preview_duration,
                   timestamp, clips_dir_exists, number_of_clips, i, requests,
                   extract_results, clip_paths, concat_file, concat_exists,
                   concat_requests, artifact, prev_runs>>

-----------------------------------------------------------------------------
(* get_clip_length: one pass of the while loop per line typed *)

ValidClipLength(v) == MinClipLength <= v /\ v <= MaxClipLength

GetClipLength ==
    /\ pc = "get_clip_length"
    /\ \E inp \in ClipInputs :
        /\ clip_input' = inp
        /\ IF inp.kind = "empty"
           THEN /\ clip_length' = DefaultClipLength
                /\ pc' = "show_examples"
                /\ console' = console
           ELSE IF inp.kind = "text"
           THEN /\ console' = "Please enter a valid number."
                /\ UNCHANGED <<clip_length, pc>>
           ELSE IF ValidClipLength(inp.val)
           THEN /\ clip_length' = inp.val
                /\ pc' = "show_examples"
                /\ console' = console
           ELSE /\ console' = "Please enter a clip length between 1 and 60 seconds."
                /\ UNCHANGED <<clip_length, pc>>
    /\ UNCHANGED <<duration, percentage_input, percentage, table_clips,
                   shown_clips, preview_duration, timestamp, clips_dir_exists,
                   number_of_clips, i, requests, extract_results, clip_paths,
                   concat_file, concat_exists, concat_requests, artifact,
                   error, exit_code, prev_runs>>

-----------------------------------------------------------------------------
(* get_preview_percentage: the example table, then one pass of the loop per
   line typed; main computes preview_duration from the returned fraction *)

ShowPercentageExamples ==
    /\ pc = "show_examples"
    /\ table_clips' = [k \in 1 .. Len(ExamplePercentages) |->
                          TableClips(duration, clip_length, ExamplePercentages[k])]
    /\ console' = "Choose preview percentage:"
    /\ pc' = "get_percentage"
    /\ UNCHANGED <<duration, clip_input, clip_length, percentage_input,
                   percentage, shown_clips, preview_duration, timestamp,
                   clips_dir_exists, number_of_clips, i, requests,
                   extract_results, clip_paths, concat_file, concat_exists,
                   concat_requests, artifact, error, exit_code, prev_runs>>

ValidPercentageLoose(v) == MinPercentage <= v /\ v <= MaxPercentage + 1
ValidPercentage(v) == MinPercentage <= v /\ v <= MaxPercentage

GetPreviewPercentage ==
    /\ pc = "get_percentage"
    /\ \E inp \in PercentageInputs :
        /\ percentage_input' = inp
        /\ IF inp.kind = "text"
           THEN /\ console' = "Please enter a valid number."
                /\ UNCHANGED <<percentage, shown_clips, preview_duration, pc>>
           ELSE IF ValidPercentage(inp.val)
           THEN /\ shown_clips' = ConfirmClips(duration, clip_length, inp.val)
                /\ console' = "Preview will be"
                /\ percentage' = inp.val
                /\ preview_duration' = RoundProduct(duration, inp.val)
                /\ pc' = "handle_existing"
           ELSE /\ console' = "Please enter a percentage between 1 and 50."
                /\ UNCHANGED <<percentage, shown_clips, preview_duration, pc>>
    /\ UNCHANGED <<duration, clip_input, clip_length, table_clips, timestamp,
                   clips_dir_exists, number_of_clips, i, requests,
                   extract_results, clip_paths, concat_file, concat_exists,
                   concat_requests, artifact, error, exit_code, prev_runs>>

-----------------------------------------------------------------------------
(* handle_existing_file: the output is absent, or the user overwrites it,
   renames the output, skips (sys.exit(0)) or types something else *)

HandleExistingFile ==
    /\ pc = "handle_existing"
    /\ \E choice \in {"absent", "O", "R"} :
        /\ console' = choice
        /\ pc' = "mkdir"
    /\ UNCHANGED exit_code
    /\ UNCHANGED <<duration, clip_input, clip_length, percentage_input,
                   percentage, table_clips, shown_clips, preview_duration,
                   timestamp, clips_dir_exists, number_of_clips, i, requests,
                   extract_results, clip_paths, concat_file, concat_exists,
                   concat_requests, artifact, error, prev_runs>>

HandleExistingFileSkip ==
    /\ pc = "handle_existing"
    /\ console' = "Skipping operation."
    /\ exit_code' = 0
    /\ pc' = "exit"
    /\ UNCHANGED <<duration, clip_input, clip_length, percentage_input,
                   percentage, table_clips, shown_clips, preview_duration,
                   timestamp, clips_dir_exists, number_of_clips, i, requests,
                   extract_results, clip_paths, concat_file, concat_exists,
                   concat_requests, artifact, error, prev_runs>>

HandleExistingFileInvalid ==
    /\ pc = "handle_existing"
    /\ console' = "Invalid choice. Please enter O, S, or R."
    /\ UNCHANGED <<pc, exit_code>>
    /\ UNCHANGED <<duration, clip_input, clip_length, percentage_input,
                   percentage, table_clips, shown_clips, preview_duration,
                   timestamp, clips_dir_exists, number_of_clips, i, requests,
                   extract_results, clip_paths, concat_file, concat_exists,
                   concat_requests, artifact, error, prev_runs>>

-----------------------------------------------------------------------------
(* main, lines 310-319: the clips directory, then create_preview_clips up to
   its loop *)

MakeClipsDir ==
    /\ pc = "mkdir"
    /\ \E ts \in Timestamps : timestamp' = ts
    /\ clips_dir_exists' = TRUE
    /\ number_of_clips' = NumberOfClips(preview_duration, clip_length)
    /\ clip_paths' = <<>>
    /\ i' = 0
    /\ console' = "Extracting clips"
    /\ pc' = "extract"
    /\ UNCHANGED <<duration, clip_input, clip_length, percentage_input,
                   percentage, table_clips, shown_clips, preview_duration,
                   requests, extract_results, concat_file, concat_exists,
                   concat_requests, artifact, error, exit_code, prev_runs>>

\* the ffmpeg command line of one clip
ExtractCmd(k) ==
    [index |-> k,
     ss |-> StartTime(duration, preview_duration, number_of_clips, k, timestamp),
     t |-> clip_length,
     out |-> ClipPath(timestamp, k)]

\* for i in range(number_of_clips): ... subprocess.run(cmd, check=True)
ExtractClipRun ==
    /\ pc = "extract"
    /\ i < number_of_clips
    /\ requests' = Append(requests, ExtractCmd(i))
    /\ pc' = "extract_wait"
    /\ UNCHANGED <<duration, clip_input, clip_length, percentage_input,
                   percentage, table_clips, shown_clips, preview_duration,
                   timestamp, clips_dir_exists, number_of_clips, i,
                   extract_results, clip_paths, concat_file, concat_exists,
                   concat_requests, artifact, error, exit_code, console,
                   prev_runs>>

\* ffmpeg exits 0: clip_paths.append(clip_path)
ExtractClipOk ==
    /\ pc = "extract_wait"
    /\ extract_results' = Append(extract_results, "ok")
    /\ clip_paths' = Append(clip_paths, ClipPath(timestamp, i))
    /\ i' = i + 1
    /\ console' = "Extracted clip"
    /\ pc' = "extract"
    /\ UNCHANGED <<duration, clip_input, clip_length, percentage_input,
                   percentage, table_clips, shown_clips, preview_duration,
                   timestamp, clips_dir_exists, number_of_clips, requests,
                   concat_file, concat_exists, concat_requests, artifact,
                   error, exit_code, prev_runs>>

\* ffmpeg exits non-zero: raise RuntimeError(f"Failed to extract clip {i}: {e}")
ExtractClipFailSkipped ==
    /\ pc = "extract_wait"
    /\ extract_results' = Append(extract_results, "fail")
    /\ i' = i + 1
    /\ pc' = "extract"
    /\ UNCHANGED <<duration, clip_input, clip_length, percentage_input,
                   percentage, table_clips, shown_clips, preview_duration,
                   timestamp, clips_dir_exists, number_of_clips, requests,
                   clip_paths, concat_file, concat_exists, concat_requests,
                   artifact, error, exit_code, console, prev_runs>>

ExtractClipFail ==
    /\ pc = "extract_wait"
    /\ extract_results' = Append(extract_results, "fail")
    /\ Fail("extract", i)
    /\ UNCHANGED <<duration, clip_input, clip_length, percentage_input,
                   percentage, table_clips, shown_clips, preview_duration,
                   timestamp, clips_dir_exists, number_of_clips, i, requests,
                   clip_paths, concat_file, concat_exists, concat_requests,
                   artifact, prev_runs>>

-----------------------------------------------------------------------------
(* create_concat_file: one line per clip path, in list order *)

RECURSIVE Reversed(_)
Reversed(paths) ==
    IF paths = <<>> THEN <<>>
    ELSE Append(Reversed(Tail(paths)), Head(paths))

ConcatLines(paths) == paths

CreateConcatFile ==
    /\ pc = "extract"
    /\ ~(i < number_of_clips)
    /\ concat_file' = ConcatLines(clip_paths)
    /\ concat_exists' = TRUE
    /\ pc' = "combine"
    /\ UNCHANGED <<duration, clip_input, clip_length, percentage_input,
                   percentage, table_clips, shown_clips, preview_duration,
                   timestamp, clips_dir_exists, number_of_clips, i, requests,
                   extract_results, clip_paths, concat_requests, artifact,
                   error, exit_code, console, prev_runs>>

(* combine_clips: ffmpeg -f concat over concat.txt *)

CombineClipsOk ==
    /\ pc = "combine"
    /\ concat_requests' = Append(concat_requests, concat_file)
    /\ artifact' = <<concat_file>>
    /\ console' = "Preview created"
    /\ pc' = "cleanup"
    /\ UNCHANGED <<duration, clip_input, clip_length, percentage_input,
                   percentage, table_clips, shown_clips, preview_duration,
                   timestamp, clips_dir_exists, number_of_clips, i, requests,
                   extract_results, clip_paths, concat_file, concat_exists,
                   error, exit_code, prev_runs>>

CombineClipsFail ==
    /\ pc = "combine"
    /\ concat_requests' = Append(concat_requests, concat_file)
    /\ Fail("combine", -1)
    /\ UNCHANGED <<duration, clip_input, clip_length, percentage_input,
                   percentage, table_clips, shown_clips, preview_duration,
                   timestamp, clips_dir_exists, number_of_clips, i, requests,
                   extract_results, clip_paths, concat_file, concat_exists,
                   artifact, prev_runs>>

(* cleanup_temp_files: rmtree, then unlink; an exception in either is only a
   warning and skips what follows it *)

CleanupTempFiles ==
    /\ pc = "cleanup"
    /\ \E outcome \in {"ok", "rmtree fails", "unlink fails"} :
        /\ clips_dir_exists' = (outcome = "rmtree fails")
        /\ concat_exists' = (outcome # "ok")
    /\ console' = "Preview creation completed successfully!"
    /\ exit_code' = 0
    /\ pc' = "exit"
    /\ UNCHANGED <<duration, clip_input, clip_length, percentage_input,
                   percentage, table_clips, shown_clips, preview_duration,
                   timestamp, number_of_clips, i, requests, extract_results,
                   clip_paths, concat_file, concat_requests, artifact, error,
                   prev_runs>>

-----------------------------------------------------------------------------
(* A second invocation of the script on the same video with the same answers
   to the two prompts; what the first one asked of ffmpeg is remembered *)

Rerun ==
    /\ pc = "exit"
    /\ exit_code = 0
    /\ artifact # <<>>
    /\ prev_runs = <<>>
    /\ prev_runs' = <<[duration |-> duration, clip_length |-> clip_length,
                       percentage |-> percentage, timestamp |-> timestamp,
                       requests |-> requests]>>
    /\ pc' = "get_duration"
    /\ duration' = -1
    /\ clip_input' = NoInput
    /\ clip_length' = -1
    /\ percentage_input' = NoInput
    /\ percentage' = 0
    /\ table_clips' = <<>>
    /\ shown_clips' = -1
    /\ preview_duration' = -1
    /\ timestamp' = 0
    /\ clips_dir_exists' = FALSE
    /\ number_of_clips' = -1
    /\ i' = 0
    /\ requests' = <<>>
    /\ extract_results' = <<>>
    /\ clip_paths' = <<>>
    /\ concat_file' = <<>>
    /\ concat_exists' = FALSE
    /\ concat_requests' = <<>>
    /\ artifact' = <<>>
    /\ error' = NoError
    /\ exit_code' = -1
    /\ console' = ""

-----------------------------------------------------------------------------
Next ==
    \/ GetVideoDuration
    \/ GetVideoDurationError
    \/ GetClipLength
    \/ ShowPercentageExamples
    \/ GetPreviewPercentage
    \/ HandleExistingFile
    \/ HandleExistingFileSkip
    \/ HandleExistingFileInvalid
    \/ MakeClipsDir
    \/ ExtractClipRun
    \/ ExtractClipOk
    \/ ExtractClipFail
    \/ CreateConcatFile
    \/ CombineClipsOk
    \/ CombineClipsFail
    \/ CleanupTempFiles

Spec == Init /\ [][Next]_vars

NextRerun == Next \/ Rerun

SpecRerun == Init /\ [][NextRerun]_vars

-----------------------------------------------------------------------------
(* Properties *)

\* create_preview_clips has returned its list: every extraction succeeded
ExtractionComplete ==
    \/ pc \in {"combine", "cleanup"}
    \/ pc = "exit" /\ concat_requests # <<>>

\* the (index, start offset, length) of an extraction command
Triple(r) == <<r.index, r.ss, r.t>>

\* C1: when no extraction fails, the number of extractions issued is
\* ceil(preview_duration / clip_length), where preview_duration is the
\* integer nearest to total_duration * percentage / 100; 600 s, 10 s clips
\* and 10 percent give 6 clips.
C1_ClipCount ==
    ExtractionComplete =>
        LET n == Len(requests)
            diff == 100 * preview_duration - duration * percentage
        IN  /\ diff <= 50 /\ -diff <= 50
            /\ n >= 0
            /\ n * clip_length >= preview_duration
            /\ (n - 1) * clip_length < preview_duration
            /\ (duration = 600 /\ clip_length = 10 /\ percentage = 10) => n = 6

C1_Witness ==
    /\ ExtractionComplete
    /\ duration = 600 /\ clip_length = 10 /\ percentage = 10
    /\ Len(requests) = 6

\* C2: the start offset of clip i is (total_duration / number_of_clips) * i:
\* the first is 0, offsets do not decrease, and consecutive offsets differ by
\* total_duration / number_of_clips; 37 s, 10 s clips and 50 percent give
\* offsets 0 and 18.5.
C2_EvenSpacing ==
    \A k \in 1 .. Len(requests) :
        LET s == requests[k].ss
        IN  /\ s[1] * number_of_clips = duration * (k - 1) * s[2]
            /\ (k = 1) => s = <<0, 1>>
            /\ (k > 1) =>
                  /\ RatLeq(requests[k - 1].ss, s)
                  /\ RatSub(s, requests[k - 1].ss) = Rat(duration, number_of_clips)
            /\ (duration = 37 /\ clip_length = 10 /\ percentage = 50 /\ k = 2)
                  => (number_of_clips = 2 /\ s = <<37, 2>>)

C2_Witness ==
    /\ duration = 37 /\ clip_length = 10 /\ percentage = 50
    /\ Len(requests) = 2
    /\ requests[1].ss = <<0, 1>>
    /\ requests[2].ss = <<37, 2>>

\* C3: when the extraction of index k fails, the run ends with an error that
\* names k, no extraction of a higher index was or is issued, and no
\* concatenation is issued and no preview produced.
C3_FailureAborts ==
    \A k \in 1 .. Len(extract_results) :
        extract_results[k] = "fail" =>
            /\ pc = "exit"
            /\ exit_code = 1
            /\ error = [kind |-> "extract", index |-> k - 1]
            /\ Len(requests) = k
            /\ \A r \in 1 .. Len(requests) : requests[r].index <= k - 1
            /\ concat_requests = <<>>
            /\ artifact = <<>>

C3_Witness ==
    /\ Len(extract_results) = 3
    /\ extract_results[3] = "fail"
    /\ number_of_clips = 5
    /\ pc = "exit"

\* C4: with number_of_clips = 0, no extraction and no concatenation is
\* requested and no preview is produced.
C4_EmptyPlanNoCalls ==
    number_of_clips = 0 =>
        /\ requests = <<>>
        /\ concat_requests = <<>>
        /\ artifact = <<>>

\* C5: extractions are issued one at a time in index order 0, 1, 2, ..., each
\* after the one before it succeeded; the single concatenation is issued after
\* all number_of_clips extractions succeeded, over clip 0 .. clip
\* number_of_clips - 1 in that order.
C5_OrderedAssembly ==
    /\ \A k \in 1 .. Len(requests) : requests[k].index = k - 1
    /\ Len(extract_results) <= Len(requests)
    /\ Len(requests) <= Len(extract_results) + 1
    /\ \A k \in 1 .. Len(requests) - 1 : extract_results[k] = "ok"
    /\ Len(concat_requests) <= 1
    /\ concat_requests # <<>> =>
          /\ Len(requests) = number_of_clips
          /\ Len(extract_results) = number_of_clips
          /\ \A k \in 1 .. number_of_clips : extract_results[k] = "ok"
          /\ Len(concat_requests[1]) = number_of_clips
          /\ \A k \in 1 .. number_of_clips :
                concat_requests[1][k] = requests[k].out

C5_Witness ==
    /\ concat_requests # <<>>
    /\ number_of_clips >= 3

\* C6: an extraction is only ever issued with clip_length in 1..60 and a
\* percentage in 1..50 (fraction 0.01 to 0.50); a clip length of 0 or 61 and
\* a percentage of 0 or 51 are rejected at the prompt, 50 is accepted.
C6_ValidatedBeforeRequests ==
    /\ (requests # <<>> \/ concat_requests # <<>>) =>
          /\ clip_length \in 1 .. 60
          /\ percentage \in 1 .. 50
    /\ clip_input \in {Num(0), Num(61)} =>
          (pc = "get_clip_length" /\ clip_length = -1)
    /\ percentage_input = Num(50) =>
          (percentage = 50 /\ pc # "get_percentage")
    /\ percentage_input \in {Num(0), Num(51)} =>
          (pc = "get_percentage" /\ percentage = 0 /\ requests = <<>>)

C6_Witness ==
    /\ requests # <<>>
    /\ percentage_input = Num(50)
    /\ clip_length = 60

\* C7: a second run with the same duration, clip length and percentage issues
\* the same (index, start offset, length) triples in the same order as the
\* first, whatever the timestamps of the two runs.
C7_Deterministic ==
    (/\ prev_runs # <<>>
     /\ duration = prev_runs[1].duration
     /\ clip_length = prev_runs[1].clip_length
     /\ percentage = prev_runs[1].percentage) =>
        LET first == prev_runs[1].requests
        IN  /\ Len(requests) <= Len(first)
            /\ \A k \in 1 .. Len(requests) :
                  Triple(requests[k]) = Triple(first[k])
            /\ ExtractionComplete => Len(requests) = Len(first)

C7_Witness ==
    /\ prev_runs # <<>>
    /\ ExtractionComplete
    /\ timestamp # prev_runs[1].timestamp
    /\ Len(requests) >= 2

\* C8: no run terminates, in success or in error, with the temporary clips
\* directory or the concat list still on disk.
C8_TempDiscarded ==
    pc = "exit" => (~clips_dir_exists /\ ~concat_exists)

\* C9: with two or more clips planned, each clip ends no later than the next
\* one starts and the last one ends inside the source; a clip runs past the
\* end of the source only when it is the only clip.
C9_NoOverlap ==
    \A k \in 1 .. Len(requests) :
        LET end == RatAddInt(requests[k].ss, clip_length)
        IN  /\ k < Len(requests) => RatLeq(end, requests[k + 1].ss)
            /\ RatLeq(end, <<duration, 1>>) \/ number_of_clips = 1

C9_Witness ==
    /\ number_of_clips >= 3
    /\ Len(requests) = number_of_clips
    /\ pc = "combine"

\* C10: the clip count printed for a percentage, in the confirmation line and
\* in the example table, is the number of clips then extracted for it.
C10_ShownMatchesExtracted ==
    ExtractionComplete =>
        /\ shown_clips = Len(requests)
        /\ \A k \in 1 .. Len(ExamplePercentages) :
              percentage = ExamplePercentages[k] => table_clips[k] = Len(requests)

====
